---- MODULE Spec2Model ----
(***************************************************************************)
(* Optic Pulse: the AI orchestration service (services/ai_service.py) and  *)
(* the output shapes it validates against (schemas/models.py), the         *)
(* settings built at import (core/config.py), the data engine and its      *)
(* cached connection (services/data_engine.py, core/database.py) and the   *)
(* pages of the interface (streamlit_app.py).                              *)
(*                                                                         *)
(* Texts are finite sequences.  A reply of the hosted model is a sequence  *)
(* of JSON tokens; a prompt is a sequence of chunks, each a run of n       *)
(* characters.  Python objects are tagged records [t |-> type, v |-> ...]. *)
(***************************************************************************)
EXTENDS Integers, Sequences, FiniteSets, TLC

(***************************************************************************)
(* Bounds of the model.                                                    *)
(***************************************************************************)
NumCallers == 2
MaxCalls == 2
MaxItems == 2

(***************************************************************************)
(* Program constants.                                                      *)
(***************************************************************************)
PreviewLen == 200
ScoreMin == 0
ScoreMax == 100

Callers == 1..NumCallers

Min(a, b) == IF a <= b THEN a ELSE b

(***************************************************************************)
(* Python objects.                                                         *)
(***************************************************************************)
PyStr(s) == [t |-> "str", v |-> s]
PyInt(n) == [t |-> "int", v |-> n]
\* a float is held in tenths: PyFloat(855) is 85.5
PyFloat(n) == [t |-> "float", v |-> n]
PyBool(b) == [t |-> "bool", v |-> b]
PyNone == [t |-> "NoneType", v |-> 0]
PyList(xs) == [t |-> "list", v |-> xs]
PyDict(d) == [t |-> "dict", v |-> d]
\* a local name that no statement has bound yet
Unbound == [t |-> "unbound", v |-> 0]
IsBound(x) == x.t # "unbound"

EmptyMap == [x \in {} |-> 0]

(***************************************************************************)
(* JSON tokens of a reply text.                                            *)
(***************************************************************************)
Tok(k, s, n) == [k |-> k, s |-> s, n |-> n]
P(k) == Tok(k, <<>>, 0)
S(chars) == Tok("str", chars, 0)
K(name) == Tok("str", <<name>>, 0)
I(n) == Tok("int", <<>>, n)
F(n) == Tok("float", <<>>, n)
TTrue == Tok("true", <<>>, 0)
TFalse == Tok("false", <<>>, 0)
TNull == Tok("null", <<>>, 0)
\* text that is no JSON token, such as the bare words of a refusal
Junk(w) == Tok("junk", <<w>>, 0)

(***************************************************************************)
(* json.loads: a recursive-descent parse of the whole text into one value. *)
(***************************************************************************)
ParseFail(i) == [ok |-> FALSE, val |-> PyNone, next |-> i]
ParseOk(val, i) == [ok |-> TRUE, val |-> val, next |-> i]

MapPut(d, key, val) ==
    [x \in (DOMAIN d) \cup {key} |-> IF x = key THEN val ELSE d[x]]

RECURSIVE ParseValue(_, _)
RECURSIVE ParseElems(_, _, _)
RECURSIVE ParseMembers(_, _, _)

ParseValue(toks, i) ==
    IF i > Len(toks) THEN ParseFail(i)
    ELSE LET tok == toks[i] IN
         CASE tok.k = "str" -> ParseOk(PyStr(tok.s), i + 1)
           [] tok.k = "int" -> ParseOk(PyInt(tok.n), i + 1)
           [] tok.k = "float" -> ParseOk(PyFloat(tok.n), i + 1)
           [] tok.k = "true" -> ParseOk(PyBool(TRUE), i + 1)
           [] tok.k = "false" -> ParseOk(PyBool(FALSE), i + 1)
           [] tok.k = "null" -> ParseOk(PyNone, i + 1)
           [] tok.k = "[" ->
                IF i + 1 <= Len(toks) /\ toks[i + 1].k = "]"
                THEN ParseOk(PyList(<<>>), i + 2)
                ELSE ParseElems(toks, i + 1, <<>>)
           [] tok.k = "{" ->
                IF i + 1 <= Len(toks) /\ toks[i + 1].k = "}"
                THEN ParseOk(PyDict(EmptyMap), i + 2)
                ELSE ParseMembers(toks, i + 1, EmptyMap)
           [] OTHER -> ParseFail(i)

ParseElems(toks, i, acc) ==
    LET r == ParseValue(toks, i) IN
    IF ~r.ok \/ r.next > Len(toks) THEN ParseFail(i)
    ELSE CASE toks[r.next].k = "," ->
                ParseElems(toks, r.next + 1, Append(acc, r.val))
           [] toks[r.next].k = "]" ->
                ParseOk(PyList(Append(acc, r.val)), r.next + 1)
           [] OTHER -> ParseFail(r.next)

ParseMembers(toks, i, acc) ==
    IF i + 1 > Len(toks) \/ toks[i].k # "str" \/ toks[i + 1].k # ":"
    THEN ParseFail(i)
    ELSE LET r == ParseValue(toks, i + 2) IN
         IF ~r.ok \/ r.next > Len(toks) THEN ParseFail(i)
         ELSE CASE toks[r.next].k = "," ->
                     ParseMembers(toks, r.next + 1, MapPut(acc, toks[i].s, r.val))
                [] toks[r.next].k = "}" ->
                     ParseOk(PyDict(MapPut(acc, toks[i].s, r.val)), r.next + 1)
                [] OTHER -> ParseFail(r.next)

\* json.loads that stops at the end of the first value (raw_decode)
JsonLoads_IgnoringTrailingText(text) ==
    LET r == ParseValue(text, 1) IN
    IF r.ok THEN [ok |-> TRUE, val |-> r.val] ELSE [ok |-> FALSE, val |-> PyNone]

\* json.loads(text): one value and nothing after it, or JSONDecodeError
JsonLoads(text) ==
    LET r == ParseValue(text, 1) IN
    IF r.ok /\ r.next = Len(text) + 1
    THEN [ok |-> TRUE, val |-> r.val]
    ELSE [ok |-> FALSE, val |-> PyNone]

(***************************************************************************)
(* Output shapes (schemas/models.py).  A field is [name, type] and, for a  *)
(* bounded integer, ge and le.                                             *)
(***************************************************************************)
Fld(name, type) == [name |-> name, type |-> type, bounded |-> FALSE, ge |-> 0, le |-> 0]

VibeReportOutput ==
    << Fld("shopping_persona", "str"),
       Fld("key_behavioral_metrics", "dict"),
       Fld("key_purchase_metrics", "dict"),
       Fld("color_palette_hints", "list_str") >>

BrandVoiceOutput ==
    << Fld("tone", "str"),
       Fld("emoji_density", "float"),
       Fld("cta_style", "str"),
       Fld("body_style", "str"),
       [name |-> "predicted_score", type |-> "int", bounded |-> TRUE,
        ge |-> ScoreMin, le |-> ScoreMax],
       Fld("new_campaign_body", "str") >>

SmartReceiptOutput ==
    << Fld("next_best_item", "str"),
       Fld("loyalty_incentive_text", "str"),
       Fld("coupons", "list_str") >>

OutputModels == {"VibeReportOutput", "BrandVoiceOutput", "SmartReceiptOutput"}

\* the database settings: a BaseModel as well; the env= of its fields is no
\* part of a BaseModel field, so the values come from the arguments only
MysqlPortDefault == 3306
DBSettings ==
    << Fld("mysql_user", "str"),
       Fld("mysql_password", "str"),
       Fld("mysql_host", "str"),
       Fld("mysql_port", "int"),
       Fld("mysql_database", "str") >>

FieldsOf(model) ==
    CASE model = "VibeReportOutput" -> VibeReportOutput
      [] model = "BrandVoiceOutput" -> BrandVoiceOutput
      [] model = "SmartReceiptOutput" -> SmartReceiptOutput
      [] model = "DBSettings" -> DBSettings

FieldNames(model) == {FieldsOf(model)[i].name : i \in 1..Len(FieldsOf(model))}

(***************************************************************************)
(* pydantic's validation of one value against a declared type, in its      *)
(* default (lax) mode: a value of another type is converted when pydantic  *)
(* has a conversion for it and rejected otherwise.                         *)
(***************************************************************************)
Digits == <<"0", "1", "2", "3", "4", "5", "6", "7", "8", "9">>
IsDigit(c) == \E i \in 1..Len(Digits) : Digits[i] = c
DigitVal(c) == (CHOOSE i \in 1..Len(Digits) : Digits[i] = c) - 1

AllDigits(s) == Len(s) > 0 /\ \A i \in 1..Len(s) : IsDigit(s[i])

RECURSIVE DigitsVal(_, _)
DigitsVal(s, acc) ==
    IF s = <<>> THEN acc ELSE DigitsVal(Tail(s), acc * 10 + DigitVal(Head(s)))

Unsigned(s) == IF Len(s) > 0 /\ Head(s) = "-" THEN Tail(s) ELSE s
Sign(s) == IF Len(s) > 0 /\ Head(s) = "-" THEN -1 ELSE 1

\* "85", "-5"
StrIsInt(s) == AllDigits(Unsigned(s))
StrToInt(s) == Sign(s) * DigitsVal(Unsigned(s), 0)

\* "85", "0.5", "-1.5": the value in tenths
DotAt(s) == IF \E i \in 1..Len(s) : s[i] = "." THEN CHOOSE i \in 1..Len(s) : s[i] = "." ELSE 0
StrIsFloat(s) ==
    LET u == Unsigned(s) d == DotAt(Unsigned(s)) IN
    IF d = 0 THEN AllDigits(u)
    ELSE /\ d = Len(u) - 1
         /\ AllDigits(SubSeq(u, 1, d - 1))
         /\ IsDigit(u[Len(u)])
StrToFloat(s) ==
    LET u == Unsigned(s) d == DotAt(Unsigned(s)) IN
    IF d = 0 THEN Sign(s) * DigitsVal(u, 0) * 10
    ELSE Sign(s) * (DigitsVal(SubSeq(u, 1, d - 1), 0) * 10 + DigitVal(u[Len(u)]))

VOk(val) == [errs |-> <<>>, val |-> val]
VErr(loc, type) == [errs |-> <<[loc |-> loc, type |-> type]>>, val |-> PyNone]

ValidateStr(loc, x) ==
    IF x.t = "str" THEN VOk(x) ELSE VErr(loc, "string_type")

ToInt(loc, x) ==
    CASE x.t = "int" -> VOk(x)
      [] x.t = "bool" -> VOk(PyInt(IF x.v THEN 1 ELSE 0))
      [] x.t = "float" ->
           IF x.v % 10 = 0 THEN VOk(PyInt(x.v \div 10)) ELSE VErr(loc, "int_from_float")
      [] x.t = "str" ->
           IF StrIsInt(x.v) THEN VOk(PyInt(StrToInt(x.v))) ELSE VErr(loc, "int_parsing")
      [] OTHER -> VErr(loc, "int_type")

\* ValidateInt with an out-of-range value moved to the nearest bound
ValidateInt_Clamping(loc, f, x) ==
    LET r == ToInt(loc, x) IN
    IF r.errs # <<>> \/ ~f.bounded THEN r
    ELSE IF r.val.v < f.ge THEN VOk(PyInt(f.ge))
    ELSE IF r.val.v > f.le THEN VOk(PyInt(f.le))
    ELSE r

ValidateInt(loc, f, x) ==
    LET r == ToInt(loc, x) IN
    IF r.errs # <<>> \/ ~f.bounded THEN r
    ELSE IF r.val.v < f.ge THEN VErr(loc, "greater_than_equal")
    ELSE IF r.val.v > f.le THEN VErr(loc, "less_than_equal")
    ELSE r

\* ValidateFloat with the fraction of a float dropped
ValidateFloat_Truncating(loc, x) ==
    CASE x.t = "float" -> VOk(PyFloat((x.v \div 10) * 10))
      [] x.t = "int" -> VOk(PyFloat(x.v * 10))
      [] OTHER -> VErr(loc, "float_type")

ValidateFloat(loc, x) ==
    CASE x.t = "float" -> VOk(x)
      [] x.t = "int" -> VOk(PyFloat(x.v * 10))
      [] x.t = "bool" -> VOk(PyFloat(IF x.v THEN 10 ELSE 0))
      [] x.t = "str" ->
           IF StrIsFloat(x.v) THEN VOk(PyFloat(StrToFloat(x.v))) ELSE VErr(loc, "float_parsing")
      [] OTHER -> VErr(loc, "float_type")

\* Dict[str, Any]: the keys of a parsed JSON object are strings, the values are kept
ValidateDict(loc, x) ==
    IF x.t = "dict" THEN VOk(x) ELSE VErr(loc, "dict_type")

RECURSIVE ListErrs(_, _, _)
ListErrs(loc, xs, i) ==
    IF i > Len(xs) THEN <<>>
    ELSE ValidateStr(Append(loc, i - 1), xs[i]).errs \o ListErrs(loc, xs, i + 1)

\* List[str]: a list, each item validated as str
ValidateListStr(loc, x) ==
    IF x.t # "list" THEN VErr(loc, "list_type")
    ELSE LET errs == ListErrs(loc, x.v, 1) IN
         IF errs = <<>> THEN VOk(x) ELSE [errs |-> errs, val |-> PyNone]

ValidateField(f, x) ==
    CASE f.type = "str" -> ValidateStr(<<f.name>>, x)
      [] f.type = "int" -> ValidateInt(<<f.name>>, f, x)
      [] f.type = "float" -> ValidateFloat(<<f.name>>, x)
      [] f.type = "dict" -> ValidateDict(<<f.name>>, x)
      [] f.type = "list_str" -> ValidateListStr(<<f.name>>, x)

\* FieldResult with an absent field defaulting to None
FieldResult_DefaultNone(f, data) ==
    IF <<f.name>> \in DOMAIN data THEN ValidateField(f, data[<<f.name>>])
    ELSE VOk(PyNone)

\* one field of BaseModel.__init__: a required field that is absent is an error
FieldResult(f, data) ==
    IF <<f.name>> \in DOMAIN data THEN ValidateField(f, data[<<f.name>>])
    ELSE VErr(<<f.name>>, "missing")

RECURSIVE ModelErrs(_, _, _)
ModelErrs(fields, data, i) ==
    IF i > Len(fields) THEN <<>>
    ELSE FieldResult(fields[i], data).errs \o ModelErrs(fields, data, i + 1)

\* output_model(**data) for a mapping data: the instance, or ValidationError with
\* one entry per offending field; keys that are no field of the model are ignored
ModelInit(model, data) ==
    LET fields == FieldsOf(model)
        errs == ModelErrs(fields, data, 1)
    IN IF errs # <<>> THEN [ok |-> FALSE, errs |-> errs, obj |-> PyNone]
       ELSE [ok |-> TRUE, errs |-> <<>>,
             obj |-> [t |-> model,
                      v |-> [n \in FieldNames(model) |->
                               LET f == CHOOSE g \in {fields[i] : i \in 1..Len(fields)} : g.name = n
                               IN FieldResult(f, data).val]]]

(***************************************************************************)
(* Prompt templates (PromptTemplate.from_template).  A template is a       *)
(* sequence of segments: literal text of n characters, or a placeholder.   *)
(* A rendered prompt is a sequence of chunks [s, n]: n characters of s.    *)
(***************************************************************************)
Lit(id, n) == [var |-> FALSE, s |-> id, n |-> n]
Var(name) == [var |-> TRUE, s |-> name, n |-> 0]

VibeProfilerPrompt ==
    << Lit("vibe_head", 272), Var("transaction_summary"), Lit("vibe_tail", 489) >>

BrandVoiceClonerPrompt ==
    << Lit("brand_head", 297), Var("campaign_texts"), Lit("brand_tail", 540) >>

SmartReceiptRecommenderPrompt ==
    << Lit("receipt_head", 239), Var("current_basket_items"), Lit("receipt_mid", 50),
       Var("past_purchase_patterns"), Lit("receipt_tail", 355) >>

InputVariables(template) ==
    {template[i].s : i \in {j \in 1..Len(template) : template[j].var}}

RECURSIVE Chunks(_)
Chunks(chars) ==
    IF chars = <<>> THEN <<>>
    ELSE <<[s |-> Head(chars), n |-> 1]>> \o Chunks(Tail(chars))

RECURSIVE Substitute(_, _, _)
Substitute(template, input_data, i) ==
    IF i > Len(template) THEN <<>>
    ELSE (IF template[i].var THEN Chunks(input_data[template[i].s])
          ELSE <<[s |-> template[i].s, n |-> template[i].n]>>)
         \o Substitute(template, input_data, i + 1)

\* prompt.format(**input_data): KeyError when a placeholder has no value
PromptFormat(template, input_data) ==
    LET missing == InputVariables(template) \ DOMAIN input_data IN
    IF missing # {}
    THEN [ok |-> FALSE, text |-> <<>>,
          key |-> template[CHOOSE i \in 1..Len(template) :
                             /\ template[i].var /\ template[i].s \in missing
                             /\ \A j \in 1..(i - 1) :
                                  ~(template[j].var /\ template[j].s \in missing)].s]
    ELSE [ok |-> TRUE, text |-> Substitute(template, input_data, 1), key |-> ""]

\* a join that writes the separator after every item, the last one included
RECURSIVE Join_TrailingSeparator(_, _)
Join_TrailingSeparator(sep, items) ==
    IF items = <<>> THEN <<>>
    ELSE items[1] \o sep \o Join_TrailingSeparator(sep, Tail(items))

\* sep.join(items)
RECURSIVE Join(_, _)
Join(sep, items) ==
    IF items = <<>> THEN <<>>
    ELSE IF Len(items) = 1 THEN items[1]
    ELSE items[1] \o sep \o Join(sep, Tail(items))

\* str(d) of a dict of strings, given as its (key, value) pairs in insertion order
ReprStr(chars) == <<"'">> \o chars \o <<"'">>
RECURSIVE ReprPairs(_)
ReprPairs(pairs) ==
    IF pairs = <<>> THEN <<>>
    ELSE ReprStr(pairs[1][1]) \o <<":", " ">> \o ReprStr(pairs[1][2])
         \o (IF Len(pairs) > 1 THEN <<",", " ">> ELSE <<>>) \o ReprPairs(Tail(pairs))
StrOfDict(pairs) == <<"{">> \o ReprPairs(pairs) \o <<"}">>

\* text[:n] of a rendered prompt
RECURSIVE TakeChars(_, _)
TakeChars(chunks, n) ==
    IF n <= 0 \/ chunks = <<>> THEN <<>>
    ELSE IF Head(chunks).n >= n THEN <<[s |-> Head(chunks).s, n |-> n]>>
    ELSE <<Head(chunks)>> \o TakeChars(Tail(chunks), n - Head(chunks).n)

\* the characters of a reply: a reply is kept as its JSON tokens, written
\* without blanks; the characters of a string are its elements

RECURSIVE NatChars(_)
NatChars(n) ==
    IF n < 10 THEN <<Digits[n + 1]>>
    ELSE NatChars(n \div 10) \o <<Digits[(n % 10) + 1]>>
IntChars(n) == IF n < 0 THEN <<"-">> \o NatChars(0 - n) ELSE NatChars(n)
\* a float is kept in tenths
FloatChars(n) ==
    LET m == IF n < 0 THEN 0 - n ELSE n IN
    (IF n < 0 THEN <<"-">> ELSE <<>>) \o NatChars(m \div 10) \o <<".">>
    \o <<Digits[(m % 10) + 1]>>
TokChars(tok) ==
    CASE tok.k = "str" -> <<"\"">> \o tok.s \o <<"\"">>
      [] tok.k = "int" -> IntChars(tok.n)
      [] tok.k = "float" -> FloatChars(tok.n)
      [] tok.k = "true" -> <<"t", "r", "u", "e">>
      [] tok.k = "false" -> <<"f", "a", "l", "s", "e">>
      [] tok.k = "null" -> <<"n", "u", "l", "l">>
      [] tok.k = "junk" -> tok.s
      [] OTHER -> <<tok.k>>
RECURSIVE Text(_)
Text(toks) ==
    IF toks = <<>> THEN <<>> ELSE TokChars(Head(toks)) \o Text(Tail(toks))

\* the reply logged whole
TakeToks_Whole(toks, n) == Text(toks)

\* text[:n] of a reply
TakeToks(toks, n) == SubSeq(Text(toks), 1, Min(Len(Text(toks)), n))

(***************************************************************************)
(* Reply texts the hosted model may send.                                  *)
(***************************************************************************)
RECURSIVE Members(_)
Members(ms) ==
    IF ms = <<>> THEN <<>>
    ELSE <<K(ms[1][1]), P(":")>> \o ms[1][2]
         \o (IF Len(ms) > 1 THEN <<P(",")>> ELSE <<>>) \o Members(Tail(ms))
Obj(ms) == <<P("{")>> \o Members(ms) \o <<P("}")>>

RECURSIVE Elems(_)
Elems(xs) ==
    IF xs = <<>> THEN <<>>
    ELSE xs[1] \o (IF Len(xs) > 1 THEN <<P(",")>> ELSE <<>>) \o Elems(Tail(xs))
Arr(xs) == <<P("[")>> \o Elems(xs) \o <<P("]")>>

RECURSIVE Without(_, _)
Without(ms, name) ==
    IF ms = <<>> THEN <<>>
    ELSE (IF ms[1][1] = name THEN <<>> ELSE <<ms[1]>>) \o Without(Tail(ms), name)

With(ms, name, toks) ==
    [i \in 1..Len(ms) |-> IF ms[i][1] = name THEN <<name, toks>> ELSE ms[i]]

VibeMembers ==
    << <<"shopping_persona", <<S(<<"Green Flag">>)>> >>,
       <<"key_behavioral_metrics", Obj(<< <<"return_rate", <<F(1)>> >> >>)>>,
       <<"key_purchase_metrics", Obj(<< <<"most_bought_category", <<S(<<"Apparel">>)>> >> >>)>>,
       <<"color_palette_hints", Arr(<< <<S(<<"#FFD700">>)>>, <<S(<<"#6A5ACD">>)>> >>)>> >>

BrandMembers ==
    << <<"tone", <<S(<<"playful">>)>> >>,
       <<"emoji_density", <<F(5)>> >>,
       <<"cta_style", <<S(<<"urgent">>)>> >>,
       <<"body_style", <<S(<<"storytelling">>)>> >>,
       <<"predicted_score", <<I(85)>> >>,
       <<"new_campaign_body", <<S(<<"Shop now">>)>> >> >>

ReceiptMembers ==
    << <<"next_best_item", <<S(<<"Oat Milk">>)>> >>,
       <<"loyalty_incentive_text", <<S(<<"Earn double points!">>)>> >>,
       <<"coupons", Arr(<< <<S(<<"10% off coffee">>)>> >>)>> >>

MembersOf(model) ==
    CASE model = "VibeReportOutput" -> VibeMembers
      [] model = "BrandVoiceOutput" -> BrandMembers
      [] model = "SmartReceiptOutput" -> ReceiptMembers

\* objects that match a shape exactly
WellFormedReplies ==
    {Obj(MembersOf(m)) : m \in OutputModels}
    \cup {Obj(With(BrandMembers, "predicted_score", <<I(n)>>)) : n \in {ScoreMin, ScoreMax}}
    \cup {Obj(With(ReceiptMembers, "coupons", Arr(<<>>)))}

\* objects that lack one required field
MissingFieldReplies ==
    {Obj(Without(MembersOf(m), f)) : m \in OutputModels, f \in
        {"shopping_persona", "key_behavioral_metrics", "key_purchase_metrics",
         "color_palette_hints", "tone", "emoji_density", "cta_style", "body_style",
         "predicted_score", "new_campaign_body", "next_best_item",
         "loyalty_incentive_text", "coupons"}}
    \cup {Obj(<<>>)}

\* objects with every field present and predicted_score out of range
OutOfRangeReplies ==
    {Obj(With(BrandMembers, "predicted_score", <<I(n)>>)) :
        n \in {ScoreMin - 1, ScoreMax + 1, 150}}
    \cup {Obj(With(BrandMembers, "predicted_score", <<S(<<"1", "5", "0">>)>>))}

\* objects with every field present and a value of another type than declared
OtherTypeReplies ==
    {Obj(With(BrandMembers, "predicted_score", <<tok>>)) :
        tok \in {S(<<"8", "5">>), F(850), F(855), S(<<"high">>), TNull}}
    \cup {Obj(With(BrandMembers, "emoji_density", <<tok>>)) :
        tok \in {I(1), S(<<"0", ".", "5">>), S(<<"lots">>)}}
    \cup {Obj(With(VibeMembers, "shopping_persona", <<I(7)>>)),
          Obj(With(VibeMembers, "key_purchase_metrics", Arr(<<>>))),
          Obj(With(ReceiptMembers, "coupons", <<S(<<"10% off coffee">>)>>)),
          Obj(With(ReceiptMembers, "coupons", Arr(<< <<S(<<"a">>)>>, <<I(10)>> >>)))}

\* an object with a key that is no field of the shape
ExtraFieldReplies ==
    {Obj(BrandMembers \o << <<"confidence", <<I(1)>> >> >>)}

\* valid JSON that is no object
NonObjectReplies ==
    {Arr(<< <<TFalse>> >>), Arr(<<Obj(ReceiptMembers)>>), <<S(<<"ok">>)>>, <<I(42)>>,
     <<TTrue>>, <<TNull>>}

\* text that is not valid JSON
MalformedReplies ==
    {<<>>, <<Junk("sorry"), Junk("I can't help")>>,
     <<P("{"), K("tone"), P(":")>>,
     Obj(ReceiptMembers) \o <<Junk("Hope this helps")>>,
     <<P("{"), K("tone"), P(":"), S(<<"playful">>), P(","), P("}")>>}

\* a reply longer than the preview of the log
LongReplies ==
    {Obj(With(BrandMembers, "new_campaign_body",
              <<S([i \in 1..(PreviewLen + 1) |-> "x"])>>))}

Replies ==
    WellFormedReplies \cup MissingFieldReplies \cup OutOfRangeReplies
    \cup OtherTypeReplies \cup ExtraFieldReplies \cup NonObjectReplies
    \cup MalformedReplies \cup LongReplies

(***************************************************************************)
(* Inputs of the callers.                                                  *)
(***************************************************************************)
Words == {<<"a">>, <<"b">>}
SeqsUpTo(n) == UNION {[1..k -> Words] : k \in 0..n}
\* transaction_summary: a string, possibly empty
Summaries == {Join(<<>>, ws) : ws \in SeqsUpTo(MaxItems)}
\* campaign_texts, current_basket_items: lists of strings, possibly empty
StringLists == SeqsUpTo(MaxItems)
\* past_purchase_patterns: a dict, given as its items in insertion order
PatternDicts == {<<>>, << <<<<"favorite_brand">>, <<"EcoBrew">>>> >>}
ApiKeys == {"", "sk-test"}

(***************************************************************************)
(* State.                                                                  *)
(*   svc        the AIService instance: the endpoint handle and the three  *)
(*              prompt templates                                           *)
(*   llm_calls  how many times the hosted model has been invoked           *)
(*   call       per caller, the frame of its call of _call_ai_model        *)
(*   held       per caller, the record it keeps from its last successful   *)
(*              call                                                       *)
(*   boot       the start of the process: the environment and how far the  *)
(*              imports and the construction of the service have come      *)
(*   engine     the DataEngine instance and the DuckDB connections         *)
(*   ui         the Streamlit page: the widgets, the requests sent and the *)
(*              messages shown                                             *)
(***************************************************************************)
VARIABLES svc, llm_calls, call, held, boot, engine, ui

vars == <<svc, llm_calls, call, held, boot, engine, ui>>

\* what the AIService call path leaves alone
others == <<held, boot, engine, ui>>

NoExc == [t |-> "none", v |-> 0]
Exc(t, v) == [t |-> t, v |-> v]

IdleFrame ==
    [pc |-> "idle", op |-> "", args |-> <<>>,
     prompt |-> <<>>, input_data |-> EmptyMap, output_model |-> "",
     formatted_prompt |-> Unbound, response_content |-> Unbound,
     response_json |-> Unbound, validated_output |-> Unbound,
     exc |-> NoExc, result |-> Unbound, raised |-> NoExc,
     log |-> <<>>, steps |-> <<>>, invocations |-> 0]

\* a log line: the level, the fixed part of the message, the text of the prompt
\* or of the reply interpolated into it, and the exception interpolated into it
LogEntry(level, msg, text) ==
    [level |-> level, msg |-> msg, text |-> text, exc |-> NoExc]

\* logging.error(f"...: {e}..."): the line shows the exception it reports
LogError(msg, exc, text) ==
    [level |-> "ERROR", msg |-> msg, text |-> text, exc |-> exc]

\* AIService.__init__
NewService(key) ==
    [llm |-> [model |-> "gpt-4o", temperature |-> 2, openai_api_key |-> key],
     vibe_profiler_prompt |-> VibeProfilerPrompt,
     brand_voice_cloner_prompt |-> BrandVoiceClonerPrompt,
     smart_receipt_recommender_prompt |-> SmartReceiptRecommenderPrompt]

\* what a caller holds of a record: the object as it is now, and (for the
\* properties) the object as the service returned it
Holding(obj, returned) == [obj |-> obj, returned |-> returned]
NothingHeld == Holding(Unbound, Unbound)

\* the process is up: the modules are imported and the service is constructed
Running(env) == [phase |-> "running", env |-> env, error |-> NoExc]

\* what the last operation on the engine was and what it found (for the
\* properties): the connection held before it, whether and how the factory was
\* called, the connection the query ran on, the factory calls made before it
LastOp(op, before, factory, used, query, calls_before) ==
    [op |-> op, before |-> before, factory |-> factory, used |-> used,
     query |-> query, calls_before |-> calls_before]

\* DataEngine.__init__: no connection (0 stands for None); no connection was
\* opened yet and the factory was not called yet
NewEngine ==
    [duckdb_con |-> 0, live |-> {}, open |-> {}, made |-> 0, factory_calls |-> 0,
     last |-> LastOp("", 0, "not_called", 0, "not_run", 0)]

\* what the last run of the page script did: the button pressed in it ("" when
\* the run was started by something else), the requests sent, the messages shown
Ran(button, posted, shown) == [button |-> button, posted |-> posted, shown |-> shown]

\* the widgets as the script first draws them: the radio on its first option,
\* the text input holding "customer_123"
FirstPage ==
    [page |-> "Vibe Report", id |-> <<"customer_123">>, text |-> <<>>,
     patterns |-> <<>>, last |-> Ran("", <<>>, <<>>)]

Init ==
    /\ svc \in {NewService(key) : key \in ApiKeys}
    /\ llm_calls = 0
    /\ call = [c \in Callers |-> IdleFrame]
    /\ held = [c \in Callers |-> NothingHeld]
    /\ boot = Running(IF svc.llm.openai_api_key = "" THEN {} ELSE {"OPENAI_API_KEY"})
    /\ engine = NewEngine
    /\ ui = FirstPage

\* the caller c enters _call_ai_model(prompt, input_data, output_model)
Enter(c, op, args, prompt, input_data, output_model) ==
    /\ call[c].pc = "idle"
    /\ llm_calls < MaxCalls
    /\ call' = [call EXCEPT ![c] =
                  [IdleFrame EXCEPT !.pc = "format", !.op = op, !.args = args,
                                    !.prompt = prompt, !.input_data = input_data,
                                    !.output_model = output_model]]
    /\ UNCHANGED <<svc, llm_calls, others>>

get_vibe_report(c, transaction_summary) ==
    Enter(c, "get_vibe_report", <<transaction_summary>>,
          svc.vibe_profiler_prompt,
          [k \in {"transaction_summary"} |-> transaction_summary],
          "VibeReportOutput")

clone_brand_voice(c, campaign_texts) ==
    Enter(c, "clone_brand_voice", <<campaign_texts>>,
          svc.brand_voice_cloner_prompt,
          [k \in {"campaign_texts"} |-> Join(<<"\n">>, campaign_texts)],
          "BrandVoiceOutput")

get_smart_receipt_recommendations(c, current_basket_items, past_purchase_patterns) ==
    Enter(c, "get_smart_receipt_recommendations",
          <<current_basket_items, past_purchase_patterns>>,
          svc.smart_receipt_recommender_prompt,
          [k \in {"current_basket_items", "past_purchase_patterns"} |->
             IF k = "current_basket_items"
             THEN Join(<<",", " ">>, current_basket_items)
             ELSE StrOfDict(past_purchase_patterns)],
          "SmartReceiptOutput")

\* the helper called on its own, with a value for only some placeholders
call_ai_model(c, prompt, keys, output_model) ==
    Enter(c, "_call_ai_model", <<>>, prompt, [k \in keys |-> <<"a">>], output_model)

\* Format with the failure ignored: the call goes on to the model all the same
FormatFrame_IgnoringKeyError(f) ==
    LET r == PromptFormat(f.prompt, f.input_data) IN
    [f EXCEPT !.pc = "invoke",
              !.formatted_prompt = IF r.ok THEN PyStr(r.text) ELSE Unbound,
              !.steps = Append(@, "render")]

\* line 82-83: formatted_prompt = prompt.format(**input_data); logging.info
FormatFrame(f) ==
    LET r == PromptFormat(f.prompt, f.input_data) IN
    IF r.ok
    THEN [f EXCEPT !.pc = "invoke",
                   !.formatted_prompt = PyStr(r.text),
                   !.steps = Append(@, "render"),
                   !.log = Append(@, LogEntry("INFO", "Sending prompt to AI",
                                              TakeChars(r.text, PreviewLen)))]
    ELSE [f EXCEPT !.pc = "except",
                   !.steps = Append(@, "render"),
                   !.exc = Exc("KeyError", r.key)]

\* Format that also binds the values into the template held by the service
Format_BindingTemplate(c) ==
    /\ call[c].pc = "format"
    /\ call' = [call EXCEPT ![c] = FormatFrame(call[c])]
    /\ svc' = [svc EXCEPT !.vibe_profiler_prompt =
                 IF call[c].prompt = @ /\ call'[c].pc = "invoke"
                 THEN <<Lit("vibe_head", 272), Lit("vibe_tail", 489)>> ELSE @]
    /\ UNCHANGED <<llm_calls, others>>

Format(c) ==
    /\ call[c].pc = "format"
    /\ call' = [call EXCEPT ![c] = FormatFrame(call[c])]
    /\ UNCHANGED <<svc, llm_calls, others>>

\* line 87-88: response_content = self.llm.invoke(formatted_prompt).content; logging.info
InvokeReply(c, reply) ==
    /\ call[c].pc = "invoke"
    /\ svc.llm.openai_api_key # ""
    /\ llm_calls' = llm_calls + 1
    /\ call' = [call EXCEPT ![c] =
                  [@ EXCEPT !.pc = "parse",
                            !.response_content = PyStr(reply),
                            !.steps = Append(@, "invoke"),
                            !.invocations = @ + 1,
                            !.log = Append(@, LogEntry("INFO", "Received raw AI response",
                                                       TakeToks(reply, PreviewLen)))]]
    /\ UNCHANGED <<svc, others>>

\* line 87: the call of the hosted model fails at the network or API layer
InvokeFail(c) ==
    /\ call[c].pc = "invoke"
    /\ llm_calls' = llm_calls + 1
    /\ call' = [call EXCEPT ![c] =
                  [@ EXCEPT !.pc = "except",
                            !.steps = Append(@, "invoke"),
                            !.invocations = @ + 1,
                            !.exc = Exc("OpenAIError", 0)]]
    /\ UNCHANGED <<svc, others>>

\* Parse reading the reply from a slot that all calls in progress share
Parse_SharedReply(c) ==
    /\ call[c].pc = "parse"
    /\ \E d \in Callers :
          /\ IsBound(call[d].response_content)
          /\ LET f == call[c]
                 r == JsonLoads(call[d].response_content.v)
             IN call' = [call EXCEPT ![c] =
                  IF r.ok
                  THEN [f EXCEPT !.pc = "validate",
                                 !.response_json = r.val,
                                 !.steps = Append(@, "parse")]
                  ELSE [f EXCEPT !.pc = "except",
                                 !.steps = Append(@, "parse"),
                                 !.exc = Exc("JSONDecodeError", 0)]]
    /\ UNCHANGED <<svc, llm_calls, others>>

\* line 92: response_json = json.loads(response_content)
Parse(c) ==
    /\ call[c].pc = "parse"
    /\ LET f == call[c]
           r == JsonLoads(f.response_content.v)
       IN call' = [call EXCEPT ![c] =
            IF r.ok
            THEN [f EXCEPT !.pc = "validate",
                           !.response_json = r.val,
                           !.steps = Append(@, "parse")]
            ELSE [f EXCEPT !.pc = "except",
                           !.steps = Append(@, "parse"),
                           !.exc = Exc("JSONDecodeError", 0)]]
    /\ UNCHANGED <<svc, llm_calls, others>>

\* line 93-96: validated_output = output_model(**response_json); logging.info; return
Validate(c) ==
    /\ call[c].pc = "validate"
    /\ LET f == call[c]
           r == ModelInit(f.output_model, f.response_json.v)
       IN call' = [call EXCEPT ![c] =
            IF f.response_json.t # "dict"
            THEN [f EXCEPT !.pc = "except",
                           !.steps = Append(@, "validate"),
                           !.exc = Exc("TypeError", 0)]
            ELSE IF ~r.ok
            THEN [f EXCEPT !.pc = "except",
                           !.steps = Append(@, "validate"),
                           !.exc = Exc("ValidationError", r.errs)]
            ELSE [f EXCEPT !.pc = "returned",
                           !.validated_output = r.obj,
                           !.result = r.obj,
                           !.steps = Append(Append(@, "validate"), "return"),
                           !.log = Append(@, LogEntry("INFO",
                                     "AI call successful and response validated.", <<>>))]]
    /\ UNCHANGED <<svc, llm_calls, others>>

\* the handlers with a retry of a failed model call
ExceptFrame_Retrying(f) ==
    IF f.exc.t = "OpenAIError" /\ f.invocations < 2
    THEN [f EXCEPT !.pc = "invoke", !.exc = NoExc]
    ELSE [f EXCEPT !.pc = "raised", !.raised = f.exc,
                   !.log = Append(@, LogEntry("ERROR", "Error during AI model call", <<>>))]

\* the handlers raising an error of their own in place of the one they caught
ExceptFrame_Wrapping(f) ==
    [f EXCEPT !.pc = "raised", !.raised = Exc("RuntimeError", 0),
              !.log = Append(@, LogEntry("ERROR", "Error during AI model call", <<>>))]

\* line 97-102: the two except clauses: logging.error, then raise
ExceptFrame(f) ==
    IF f.exc.t = "ValidationError"
    THEN IF ~IsBound(f.response_content)
         THEN [f EXCEPT !.pc = "raised",
                        !.raised = Exc("UnboundLocalError", 0)]
         ELSE [f EXCEPT !.pc = "raised",
                        !.raised = f.exc,
                        !.log = Append(@, LogError(
                                  "Pydantic validation error for AI response",
                                  f.exc, Text(f.response_content.v)))]
    ELSE [f EXCEPT !.pc = "raised",
                   !.raised = f.exc,
                   !.log = Append(@, LogError(
                             "Error during AI model call", f.exc, <<>>))]

Except(c) ==
    /\ call[c].pc = "except"
    /\ call' = [call EXCEPT ![c] = ExceptFrame(call[c])]
    /\ UNCHANGED <<svc, llm_calls, others>>

\* the caller has the outcome (the record or the exception); the frame is gone
Finish(c) ==
    /\ call[c].pc \in {"returned", "raised"}
    /\ call' = [call EXCEPT ![c] = IdleFrame]
    /\ UNCHANGED <<svc, llm_calls, others>>

\* one caller at a time (spec section 5: single-threaded, synchronous)
NoCallInProgress == \A c \in Callers : call[c].pc = "idle"

Templates ==
    {svc.vibe_profiler_prompt, svc.brand_voice_cloner_prompt,
     svc.smart_receipt_recommender_prompt}

Next ==
    \E c \in Callers :
       \/ NoCallInProgress /\ \E ts \in Summaries : get_vibe_report(c, ts)
       \/ NoCallInProgress /\ \E texts \in StringLists : clone_brand_voice(c, texts)
       \/ NoCallInProgress /\ \E items \in StringLists, patterns \in PatternDicts :
             get_smart_receipt_recommendations(c, items, patterns)
       \/ NoCallInProgress /\ \E prompt \in Templates, m \in OutputModels :
             \E keys \in (SUBSET InputVariables(prompt)) \ {InputVariables(prompt)} :
                call_ai_model(c, prompt, keys, m)
       \/ Format(c)
       \/ \E reply \in Replies : InvokeReply(c, reply)
       \/ InvokeFail(c)
       \/ Parse(c)
       \/ Validate(c)
       \/ Except(c)
       \/ Finish(c)

Spec == Init /\ [][Next]_vars

(***************************************************************************)
(* Several callers inside _call_ai_model at once (the service used from    *)
(* several threads): a call may be entered while others are in progress,   *)
(* and the steps of the calls interleave in any order.  The arguments and  *)
(* the replies are a few of each kind.                                     *)
(***************************************************************************)
ConcurrentSummaries == {<<"a">>}
ConcurrentLists == {<< <<"a">> >>, << <<"b">>, <<"a">> >>}
ConcurrentReplies ==
    {Obj(BrandMembers),
     Obj(With(BrandMembers, "predicted_score", <<I(ScoreMax + 1)>>)),
     <<Junk("sorry")>>}

InitConcurrent ==
    /\ svc = NewService("sk-test")
    /\ llm_calls = 0
    /\ call = [c \in Callers |-> IdleFrame]
    /\ held = [c \in Callers |-> NothingHeld]
    /\ boot = Running({"OPENAI_API_KEY"})
    /\ engine = NewEngine
    /\ ui = FirstPage

NextConcurrent ==
    \E c \in Callers :
       \/ \E ts \in ConcurrentSummaries : get_vibe_report(c, ts)
       \/ \E texts \in ConcurrentLists : clone_brand_voice(c, texts)
       \/ Format(c)
       \/ \E reply \in ConcurrentReplies : InvokeReply(c, reply)
       \/ InvokeFail(c)
       \/ Parse(c)
       \/ Validate(c)
       \/ Except(c)
       \/ Finish(c)

SpecConcurrent == InitConcurrent /\ [][NextConcurrent]_vars

(***************************************************************************)
(* DataEngine: the three fetches and close_connection, called one after    *)
(* the other.  Connections are numbered in the order duckdb.connect opens  *)
(* them.  engine.open are the connections opened and not closed,           *)
(* engine.live those the factory returned to the engine and the engine did *)
(* not close.                                                              *)
(***************************************************************************)
MaxFactoryCalls == 3

FetchOps ==
    {"get_transaction_history_lazyframe", "get_customer_metadata_lazyframe",
     "get_product_metadata_lazyframe"}

\* how a call of the factory ends: it returns a connection, duckdb.connect
\* raises, or INSTALL / LOAD / ATTACH raises on the connection just opened
FactoryOutcomes == {"ok", "connect_fails", "setup_fails"}

\* core/database.py get_duckdb_connection(): the engine record with the new
\* connection accounted for, and the connection returned (0 when it raised)
get_duckdb_connection(e, outcome) ==
    LET id == e.made + 1
        called == [e EXCEPT !.factory_calls = @ + 1]
    IN CASE outcome = "ok" ->
              [e |-> [called EXCEPT !.made = id, !.open = @ \cup {id}], con |-> id]
         [] outcome = "setup_fails" ->
              [e |-> [called EXCEPT !.made = id, !.open = @ \cup {id}], con |-> 0]
         [] OTHER -> [e |-> called, con |-> 0]

\* a lookup that asks the factory for a connection every time
GetConnection_AlwaysNew(e, outcome) ==
    LET r == get_duckdb_connection(e, outcome) IN
    IF r.con # 0
    THEN [r.e EXCEPT !.duckdb_con = r.con, !.live = @ \cup {r.con}]
    ELSE r.e

\* DataEngine._get_duckdb_connection: the engine afterwards; its duckdb_con is
\* the connection returned, and stays 0 when the factory raised
GetConnection(e, outcome) ==
    IF e.duckdb_con = 0
    THEN LET r == get_duckdb_connection(e, outcome) IN
         IF r.con # 0
         THEN [r.e EXCEPT !.duckdb_con = r.con, !.live = @ \cup {r.con}]
         ELSE r.e
    ELSE e

\* a fetch: con = self._get_duckdb_connection(); con.execute(query).pl().lazy()
Fetch(op, outcome, query) ==
    /\ engine.duckdb_con = 0 => engine.factory_calls < MaxFactoryCalls
    /\ engine.duckdb_con # 0 => outcome = "ok"
    /\ LET e == GetConnection(engine, outcome) IN
       /\ query = "not_run" <=> e.duckdb_con = 0
       /\ engine' = [e EXCEPT !.last =
                        LastOp(op, engine.duckdb_con,
                               IF e.factory_calls = engine.factory_calls
                               THEN "not_called" ELSE outcome,
                               e.duckdb_con, query, engine.factory_calls)]
    /\ UNCHANGED <<svc, llm_calls, call, held, boot, ui>>

QueryOutcomes == {"ok", "fails", "not_run"}

get_transaction_history_lazyframe ==
    \E outcome \in FactoryOutcomes, query \in QueryOutcomes :
       Fetch("get_transaction_history_lazyframe", outcome, query)

get_customer_metadata_lazyframe ==
    \E outcome \in FactoryOutcomes, query \in QueryOutcomes :
       Fetch("get_customer_metadata_lazyframe", outcome, query)

get_product_metadata_lazyframe ==
    \E outcome \in FactoryOutcomes, query \in QueryOutcomes :
       Fetch("get_product_metadata_lazyframe", outcome, query)

\* DataEngine.close_connection
close_connection ==
    /\ engine' =
          [(IF engine.duckdb_con # 0
            THEN [engine EXCEPT !.open = @ \ {engine.duckdb_con},
                                !.live = @ \ {engine.duckdb_con},
                                !.duckdb_con = 0]
            ELSE engine)
           EXCEPT !.last = LastOp("close_connection", engine.duckdb_con, "not_called",
                                  0, "not_run", engine.factory_calls)]
    /\ UNCHANGED <<svc, llm_calls, call, held, boot, ui>>

\* a connection nothing refers to any more (the factory raised after opening
\* it) is closed when Python collects it
Collect ==
    /\ engine.open # engine.live
    /\ engine' = [engine EXCEPT !.open = @ \cap engine.live]
    /\ UNCHANGED <<svc, llm_calls, call, held, boot, ui>>

NextEngine ==
    \/ get_transaction_history_lazyframe
    \/ get_customer_metadata_lazyframe
    \/ get_product_metadata_lazyframe
    \/ close_connection
    \/ Collect

\* a new engine; the service is up and idle
InitEngine == InitConcurrent

SpecEngine == InitEngine /\ [][NextEngine]_vars

(***************************************************************************)
(* The Streamlit page.  The script runs from top to bottom on every        *)
(* interaction (a choice of the radio, an edit of a widget, a press of a   *)
(* button); st.button is true only in the run its press started.  The      *)
(* widgets of the page shown keep what the user typed; a page newly shown  *)
(* has the default values of its widgets.                                  *)
(***************************************************************************)
Pages == {"Vibe Report", "Brand Voice Cloner", "Smart Receipts"}
MinCampaignTexts == 5
DefaultCampaignTexts == 10
DefaultBasketItems == 3
MaxLines == 6

Whitespace == {" "}
IsBlank(chars) == \A i \in DOMAIN chars : chars[i] \in Whitespace

\* text.strip()
RECURSIVE LStrip(_)
LStrip(chars) ==
    IF chars # <<>> /\ Head(chars) \in Whitespace THEN LStrip(Tail(chars)) ELSE chars
RECURSIVE RStrip(_)
RStrip(chars) ==
    IF chars # <<>> /\ chars[Len(chars)] \in Whitespace
    THEN RStrip(SubSeq(chars, 1, Len(chars) - 1)) ELSE chars
Strip(chars) == RStrip(LStrip(chars))

\* text.split('\n')
RECURSIVE SplitLines(_, _)
SplitLines(chars, line) ==
    IF chars = <<>> THEN <<line>>
    ELSE IF Head(chars) = "\n" THEN <<line>> \o SplitLines(Tail(chars), <<>>)
    ELSE SplitLines(Tail(chars), Append(line, Head(chars)))

RECURSIVE StripEach(_)
StripEach(lines) ==
    IF lines = <<>> THEN <<>> ELSE <<Strip(Head(lines))>> \o StripEach(Tail(lines))

\* the list with the blank lines kept
StrippedLines_KeepingBlank(raw) == StripEach(SplitLines(raw, <<>>))

\* [text.strip() for text in raw.split('\n') if text.strip()]
StrippedLines(raw) ==
    LET NotEmpty(line) == Strip(line) # <<>> IN
    StripEach(SelectSeq(SplitLines(raw, <<>>), NotEmpty))

\* what the user may type
FormIds == {<<>>, <<" ">>, <<"c", "1">>}
LineKinds == {<<" ">>, <<" ", "x">>}
RawTexts(n) == {Join(<<"\n">>, ls) : ls \in UNION {[1..k -> LineKinds] : k \in 0..n}}
PatternTexts == {Obj(<<>>), Arr(<<>>), <<Junk("oops")>>}
Responses == {"ok", "invalid_body", "connection_error", "http_error"}

\* the default values of the widgets of a page
DefaultText(page) ==
    CASE page = "Brand Voice Cloner" ->
           Join(<<"\n">>, [i \in 1..DefaultCampaignTexts |-> <<"campaign">>])
      [] page = "Smart Receipts" ->
           Join(<<"\n">>, [i \in 1..DefaultBasketItems |-> <<"item">>])
      [] OTHER -> <<>>
DefaultId(page) ==
    IF page = "Brand Voice Cloner" THEN <<"optic_culture">> ELSE <<"customer_123">>
DefaultPatterns(page) ==
    IF page = "Smart Receipts"
    THEN Obj(<< <<"favorite_brand", <<S(<<"EcoBrew">>)>> >> >>)
    ELSE <<>>

\* line 209-213: the patterns are parsed in every run of the Smart Receipts
\* page; text that is no JSON gives {} and an error message
PatternsOf(page, patterns) ==
    IF page = "Smart Receipts" /\ ~JsonLoads(patterns).ok
    THEN [val |-> PyDict(EmptyMap), shown |-> <<"error_invalid_json">>]
    ELSE [val |-> IF page = "Smart Receipts" THEN JsonLoads(patterns).val ELSE PyNone,
          shown |-> <<>>]

\* a run with no button pressed
Rerun(page, id, text, patterns) ==
    [page |-> page, id |-> id, text |-> text, patterns |-> patterns,
     last |-> Ran("", <<>>, PatternsOf(page, patterns).shown)]

\* requests.post(url, ...)
Post(path, id, items, patterns) ==
    [method |-> "POST", path |-> path, id |-> id, items |-> items,
     patterns |-> patterns]

\* what the page shows for the response to a request
ShownFor(response) ==
    CASE response = "ok" -> <<"success">>
      [] response = "connection_error" -> <<"error_connection">>
      [] response = "http_error" -> <<"error_http">>
      [] OTHER -> <<"error_unexpected">>

\* the radio of the sidebar
SelectPage(p) ==
    /\ ui.page # p
    /\ ui' = Rerun(p, DefaultId(p), DefaultText(p), DefaultPatterns(p))
    /\ UNCHANGED <<svc, llm_calls, call, held, boot, engine>>

\* line 84, 143, 198: the text input of the page
EditId(id) ==
    /\ ui.id # id
    /\ ui' = Rerun(ui.page, id, ui.text, ui.patterns)
    /\ UNCHANGED <<svc, llm_calls, call, held, boot, engine>>

\* line 144, 199: the text area of the campaign texts or of the basket items
EditText(raw) ==
    /\ ui.page # "Vibe Report"
    /\ ui.page = "Smart Receipts" => raw \in RawTexts(MaxItems)
    /\ ui.text # raw
    /\ ui' = Rerun(ui.page, ui.id, raw, ui.patterns)
    /\ UNCHANGED <<svc, llm_calls, call, held, boot, engine>>

\* line 205: the text area of the purchase patterns
EditPatterns(patterns) ==
    /\ ui.page = "Smart Receipts"
    /\ ui.patterns # patterns
    /\ ui' = Rerun(ui.page, ui.id, ui.text, patterns)
    /\ UNCHANGED <<svc, llm_calls, call, held, boot, engine>>

\* line 84-136: "Generate My Vibe Report"
PressVibeReport(response) ==
    /\ ui.page = "Vibe Report"
    /\ LET user_id == ui.id IN
       ui' = [ui EXCEPT !.last =
                IF user_id # <<>>
                THEN Ran("vibe", <<Post("/vibe-report", user_id, <<>>, PyNone)>>,
                         ShownFor(response))
                ELSE Ran("vibe", <<>>, <<"warning">>)]
    /\ UNCHANGED <<svc, llm_calls, call, held, boot, engine>>

\* line 143-191: "Analyze & Generate Brand Voice"
PressBrandVoice(response) ==
    /\ ui.page = "Brand Voice Cloner"
    /\ LET brand_id == ui.id
           campaign_texts == StrippedLines(ui.text)
       IN ui' = [ui EXCEPT !.last =
                   IF brand_id # <<>> /\ Len(campaign_texts) >= MinCampaignTexts
                   THEN Ran("brand",
                            <<Post("/brand-voice", brand_id, campaign_texts, PyNone)>>,
                            ShownFor(response))
                   ELSE Ran("brand", <<>>, <<"warning">>)]
    /\ UNCHANGED <<svc, llm_calls, call, held, boot, engine>>

\* line 198-254: "Generate Smart Receipt".  GetSmartReceiptRequest refuses
\* patterns that are no dict (the generic handler reports it, nothing is sent);
\* GetSmartReceiptResponse is not imported by the script, so a good response
\* ends in the generic handler as well
PressSmartReceipt(response) ==
    /\ ui.page = "Smart Receipts"
    /\ LET customer_id == ui.id
           current_basket_items == StrippedLines(ui.text)
           parsed == PatternsOf(ui.page, ui.patterns)
           past_purchase_patterns == parsed.val
       IN ui' = [ui EXCEPT !.last =
                   IF ~(customer_id # <<>> /\ current_basket_items # <<>>)
                   THEN Ran("receipt", <<>>, parsed.shown \o <<"warning">>)
                   ELSE IF past_purchase_patterns.t # "dict"
                   THEN Ran("receipt", <<>>, parsed.shown \o <<"error_unexpected">>)
                   ELSE Ran("receipt",
                            <<Post("/smart-receipt", customer_id, current_basket_items,
                                   past_purchase_patterns)>>,
                            parsed.shown \o
                               (IF response = "ok" THEN <<"error_unexpected">>
                                ELSE ShownFor(response)))]
    /\ UNCHANGED <<svc, llm_calls, call, held, boot, engine>>

NextUI ==
    \/ \E p \in Pages : SelectPage(p)
    \/ \E id \in FormIds : EditId(id)
    \/ \E raw \in RawTexts(MaxLines) : EditText(raw)
    \/ \E patterns \in PatternTexts : EditPatterns(patterns)
    \/ \E response \in Responses : PressVibeReport(response)
    \/ \E response \in Responses : PressBrandVoice(response)
    \/ \E response \in Responses : PressSmartReceipt(response)

\* the page as first drawn; the service is up and idle
InitUI == InitConcurrent

SpecUI == InitUI /\ [][NextUI]_vars

(***************************************************************************)
(* The start of the process: services/ai_service.py is imported, which     *)
(* imports core/config.py, and AIService() is constructed.  The body of    *)
(* class Settings is executed when core/config.py is imported, and with it *)
(* the default value DBSettings() of its field db.                         *)
(***************************************************************************)
EnvNames ==
    {"MYSQL_USER", "MYSQL_PASSWORD", "MYSQL_HOST", "MYSQL_PORT", "MYSQL_DATABASE",
     "OPENAI_API_KEY"}

\* DBSettings(**kwargs): mysql_port has a default, the other fields are required
NewDBSettings(kwargs) ==
    ModelInit("DBSettings",
              IF <<"mysql_port">> \in DOMAIN kwargs THEN kwargs
              ELSE MapPut(kwargs, <<"mysql_port">>, PyInt(MysqlPortDefault)))

\* Settings().openai_api_key: the variable of the environment, or the default ""
OpenAIKey(env) == IF "OPENAI_API_KEY" \in env THEN "sk-test" ELSE ""

\* no AIService exists yet
NotConstructed ==
    [llm |-> [model |-> "", temperature |-> 0, openai_api_key |-> ""],
     vibe_profiler_prompt |-> <<>>,
     brand_voice_cloner_prompt |-> <<>>,
     smart_receipt_recommender_prompt |-> <<>>]

InitStartup ==
    /\ svc = NotConstructed
    /\ llm_calls = 0
    /\ call = [c \in Callers |-> IdleFrame]
    /\ held = [c \in Callers |-> NothingHeld]
    /\ boot \in {[phase |-> "start", env |-> e, error |-> NoExc] : e \in SUBSET EnvNames}
    /\ engine = NewEngine
    /\ ui = FirstPage

\* from services.ai_service import AIService; AIService()
Startup ==
    /\ boot.phase = "start"
    /\ LET db == NewDBSettings(EmptyMap) IN
       IF ~db.ok
       THEN /\ boot' = [boot EXCEPT !.phase = "import_failed",
                                     !.error = Exc("ValidationError", db.errs)]
            /\ svc' = svc
       ELSE /\ boot' = Running(boot.env)
            /\ svc' = NewService(OpenAIKey(boot.env))
    /\ UNCHANGED <<llm_calls, call, held, engine, ui>>

NextStartup == Startup

SpecStartup == InitStartup /\ [][NextStartup]_vars

(***************************************************************************)
(* The caller keeps the record a call returned and works with it.  The     *)
(* output models are plain pydantic BaseModel classes (no frozen, no       *)
(* validate_assignment in their configuration): assigning to a declared    *)
(* field of an instance stores the value as it is, without validation.     *)
(***************************************************************************)
\* r = service.<operation>(...): the caller binds the returned record
Keep(c) ==
    /\ call[c].pc = "returned"
    /\ held' = [held EXCEPT ![c] = Holding(call[c].result, call[c].result)]
    /\ call' = [call EXCEPT ![c] = IdleFrame]
    /\ UNCHANGED <<svc, llm_calls, boot, engine, ui>>

\* r.<name> = value, for a field the model of r declares
SetAttr(c, name, value) ==
    /\ IsBound(held[c].obj)
    /\ name \in FieldNames(held[c].obj.t)
    /\ held' = [held EXCEPT ![c].obj.v[name] = value]
    /\ UNCHANGED <<svc, llm_calls, call, boot, engine, ui>>

AssignedValues == {PyInt(ScoreMax + 1), PyStr(<<"x">>)}
AssignedFields == {"predicted_score", "tone", "next_best_item"}
RecordReplies == {Obj(BrandMembers), Obj(ReceiptMembers), <<Junk("sorry")>>}

NextRecords ==
    \E c \in Callers :
       \/ NoCallInProgress /\ \E texts \in StringLists : clone_brand_voice(c, texts)
       \/ NoCallInProgress /\ \E items \in StringLists :
             get_smart_receipt_recommendations(c, items, <<>>)
       \/ Format(c)
       \/ \E reply \in RecordReplies : InvokeReply(c, reply)
       \/ InvokeFail(c)
       \/ Parse(c)
       \/ Validate(c)
       \/ Except(c)
       \/ Finish(c)
       \/ Keep(c)
       \/ \E name \in AssignedFields, value \in AssignedValues : SetAttr(c, name, value)

\* the service is up and idle, no caller holds a record
InitRecords == InitConcurrent

SpecRecords == InitRecords /\ [][NextRecords]_vars

(***************************************************************************)
(* Vocabulary of the properties.                                           *)
(***************************************************************************)
Ended(f) == f.pc \in {"returned", "raised"}
PublicOps == {"get_vibe_report", "clone_brand_voice", "get_smart_receipt_recommendations"}

\* the parsed value x has the type the field declares (and, with range, lies in it)
HasDeclaredType(fld, x, range) ==
    CASE fld.type = "str" -> x.t = "str"
      [] fld.type = "int" ->
           x.t = "int" /\ (range /\ fld.bounded => x.v >= fld.ge /\ x.v <= fld.le)
      [] fld.type = "float" -> x.t = "float"
      [] fld.type = "dict" -> x.t = "dict"
      [] fld.type = "list_str" ->
           x.t = "list" /\ \A i \in 1..Len(x.v) : x.v[i].t = "str"

HasAllFields(model, x) ==
    x.t = "dict" /\ \A n \in FieldNames(model) : <<n>> \in DOMAIN x.v

\* the parsed reply x is an object with exactly the fields of the shape, each of
\* the declared type
MatchesShape(model, x, range) ==
    /\ x.t = "dict"
    /\ DOMAIN x.v = {<<n>> : n \in FieldNames(model)}
    /\ \A i \in 1..Len(FieldsOf(model)) :
          HasDeclaredType(FieldsOf(model)[i], x.v[<<FieldsOf(model)[i].name>>], range)

(***************************************************************************)
(* C1: whenever the model's reply is a valid JSON object that matches the  *)
(* operation's output shape, the operation returns a record of that shape  *)
(* whose fields are exactly the shape's fields, each equal to the value of *)
(* the JSON object.                                                        *)
(***************************************************************************)
C1_MatchingReplyReturnedUnmodified ==
    \A c \in Callers :
       LET f == call[c] IN
       (/\ Ended(f)
        /\ IsBound(f.response_json)
        /\ MatchesShape(f.output_model, f.response_json, TRUE))
       => /\ f.pc = "returned"
          /\ f.result.t = f.output_model
          /\ DOMAIN f.result.v = FieldNames(f.output_model)
          /\ \A n \in FieldNames(f.output_model) :
                f.result.v[n] = f.response_json.v[<<n>>]

C1_Witness ==
    \E c \in Callers :
       /\ call[c].pc = "returned"
       /\ call[c].op = "clone_brand_voice"
       /\ MatchesShape("BrandVoiceOutput", call[c].response_json, TRUE)
       /\ call[c].result.v["emoji_density"] = PyFloat(5)

(***************************************************************************)
(* C2: a call of one of the three operations with an empty required input  *)
(* (empty transaction_summary, empty campaign_texts, empty                 *)
(* current_basket_items) fails with the error of a placeholder without     *)
(* value, and the hosted model is not invoked for it.                      *)
(***************************************************************************)
EmptyInput(f) == f.op \in PublicOps /\ f.args[1] = <<>>

C2_EmptyInputFailsBeforeInvoke ==
    \A c \in Callers :
       LET f == call[c] IN
       EmptyInput(f) =>
          /\ f.invocations = 0
          /\ "invoke" \notin {f.steps[i] : i \in 1..Len(f.steps)}
          /\ Ended(f) => f.pc = "raised" /\ f.raised.t = "KeyError"

(***************************************************************************)
(* C3: clone_brand_voice never returns a record whose predicted_score is   *)
(* outside 0..100; a reply with every field present and of the declared    *)
(* type whose predicted_score is out of range fails with ValidationError   *)
(* naming predicted_score, and no record is returned.                      *)
(***************************************************************************)
ScoreOutOfRange(x) ==
    /\ MatchesShape("BrandVoiceOutput", x, FALSE)
    /\ ~MatchesShape("BrandVoiceOutput", x, TRUE)

C3_ScoreInRangeOrValidationError ==
    \A c \in Callers :
       LET f == call[c] IN
       /\ (IsBound(f.result) /\ f.result.t = "BrandVoiceOutput")
          => /\ f.result.v["predicted_score"].t = "int"
             /\ f.result.v["predicted_score"].v \in ScoreMin..ScoreMax
       /\ (/\ Ended(f)
           /\ f.output_model = "BrandVoiceOutput"
           /\ IsBound(f.response_json)
           /\ ScoreOutOfRange(f.response_json))
          => /\ f.pc = "raised"
             /\ f.raised.t = "ValidationError"
             /\ \E i \in 1..Len(f.raised.v) : f.raised.v[i].loc = <<"predicted_score">>
             /\ ~IsBound(f.result)

C3_Witness ==
    \E c \in Callers :
       /\ call[c].pc = "raised"
       /\ call[c].op = "clone_brand_voice"
       /\ IsBound(call[c].response_json)
       /\ ScoreOutOfRange(call[c].response_json)
       /\ call[c].response_json.v[<<"predicted_score">>] = PyInt(150)

(***************************************************************************)
(* C4: for every required field of the operation's output shape, a reply   *)
(* that is a JSON object without that field fails with ValidationError     *)
(* naming the field as missing, and no record is returned.                 *)
(***************************************************************************)
C4_MissingFieldNamed ==
    \A c \in Callers :
       LET f == call[c] IN
       \A n \in (IF f.output_model = "" THEN {} ELSE FieldNames(f.output_model)) :
          (/\ Ended(f)
           /\ IsBound(f.response_json)
           /\ f.response_json.t = "dict"
           /\ <<n>> \notin DOMAIN f.response_json.v)
          => /\ f.pc = "raised"
             /\ f.raised.t = "ValidationError"
             /\ \E i \in 1..Len(f.raised.v) :
                   f.raised.v[i] = [loc |-> <<n>>, type |-> "missing"]
             /\ ~IsBound(f.result)

C4_Witness ==
    \E c \in Callers :
       /\ call[c].pc = "raised"
       /\ call[c].op = "clone_brand_voice"
       /\ call[c].response_json.t = "dict"
       /\ DOMAIN call[c].response_json.v =
             {<<n>> : n \in FieldNames("BrandVoiceOutput") \ {"predicted_score"}}
       /\ call[c].raised.v = <<[loc |-> <<"predicted_score">>, type |-> "missing"]>>

(***************************************************************************)
(* C5: a reply that is a JSON object with every required field, one of     *)
(* whose values has another type than the field declares, fails with       *)
(* ValidationError; no record is built from a converted value.             *)
(***************************************************************************)
\* a JSON number without fraction counts as of type float here, so that the
\* values of another type are those the claim lists: a string or a float for an
\* integer, a string for a float, a number for a string, a string for a list
HasOtherType(model, x) ==
    \E i \in 1..Len(FieldsOf(model)) :
       LET fld == FieldsOf(model)[i]
           val == x.v[<<fld.name>>]
       IN /\ ~HasDeclaredType(fld, val, FALSE)
          /\ ~(fld.type = "float" /\ val.t = "int")

C5_OtherTypeRejected ==
    \A c \in Callers :
       LET f == call[c] IN
       (/\ Ended(f)
        /\ IsBound(f.response_json)
        /\ HasAllFields(f.output_model, f.response_json)
        /\ HasOtherType(f.output_model, f.response_json))
       => /\ f.pc = "raised"
          /\ f.raised.t = "ValidationError"
          /\ ~IsBound(f.result)

(***************************************************************************)
(* C6: a reply that is not syntactically valid JSON fails with             *)
(* JSONDecodeError, which is another kind of error than ValidationError:   *)
(* no value was parsed and no record is returned; ValidationError is       *)
(* raised only for a reply that was parsed.                                *)
(***************************************************************************)
C6_MalformedReplyIsParseError ==
    \A c \in Callers :
       LET f == call[c] IN
       /\ (/\ Ended(f)
           /\ IsBound(f.response_content)
           /\ f.response_content.v \in MalformedReplies)
          => /\ f.pc = "raised"
             /\ f.raised.t = "JSONDecodeError"
             /\ ~IsBound(f.response_json)
             /\ ~IsBound(f.result)
       /\ (f.pc = "raised" /\ f.raised.t = "ValidationError")
          => /\ IsBound(f.response_json)
             /\ f.response_content.v \notin MalformedReplies

C6_Witness ==
    \E c \in Callers :
       /\ call[c].pc = "raised"
       /\ call[c].op = "get_smart_receipt_recommendations"
       /\ call[c].response_content = PyStr(Obj(ReceiptMembers) \o <<Junk("Hope this helps")>>)
       /\ call[c].raised.t = "JSONDecodeError"

(***************************************************************************)
(* C7: a call whose prompt renders invokes the hosted model exactly once,  *)
(* however it ends; a call whose prompt does not render never invokes it.  *)
(* Every passage of a call through the invocation is one more request to   *)
(* the model (nothing is answered from a cache), the count of requests     *)
(* changes in no other way, and a call that has left the invocation never  *)
(* goes back to it (no retry).                                             *)
(***************************************************************************)
PassesInvoke(c) == call[c].pc = "invoke" /\ call'[c].pc # "invoke"

C7_OneInvocationPerCall ==
    [][\A c \in Callers :
          /\ PassesInvoke(c) => llm_calls' = llm_calls + 1
          /\ (\A d \in Callers : ~PassesInvoke(d)) => llm_calls' = llm_calls
          /\ call'[c].invocations <= 1
          /\ Ended(call'[c]) =>
                call'[c].invocations = IF IsBound(call'[c].formatted_prompt) THEN 1 ELSE 0
          /\ call[c].pc \in {"parse", "validate", "except", "returned", "raised"} =>
                call'[c].pc \notin {"format", "invoke"}]_vars

C7_Witness ==
    /\ llm_calls = 2
    /\ \E c \in Callers :
          /\ call[c].pc = "raised"
          /\ call[c].raised.t = "OpenAIError"
          /\ call[c].invocations = 1

(***************************************************************************)
(* C8: a failure is never recovered: the error the caller receives is the  *)
(* error that was detected, the last log line written before it is raised  *)
(* is an error line, no record is returned with it, and a record is        *)
(* returned only by a call in which no error was detected.                 *)
(***************************************************************************)
C8_FailurePropagatesUnchanged ==
    \A c \in Callers :
       LET f == call[c] IN
       /\ f.pc = "raised" =>
             /\ f.exc.t # "none"
             /\ f.raised = f.exc
             /\ ~IsBound(f.result)
             /\ ~IsBound(f.validated_output)
             /\ Len(f.log) > 0
             /\ f.log[Len(f.log)].level = "ERROR"
       /\ f.exc.t # "none" => f.pc \in {"except", "raised"}
       /\ f.pc = "returned" => f.exc = NoExc /\ f.raised = NoExc /\ IsBound(f.result)

C8_Witness ==
    \E c \in Callers :
       /\ call[c].pc = "raised"
       /\ call[c].exc.t = "OpenAIError"
       /\ call[c].raised = call[c].exc
       /\ call[c].log[Len(call[c].log)].level = "ERROR"

(***************************************************************************)
(* C9: the steps of a call are performed in the order render, invoke,      *)
(* parse, validate, return: the model is invoked only after the prompt was *)
(* rendered, a record is returned only after the reply was parsed and      *)
(* validated, and the step that fails is the last step of the call.        *)
(***************************************************************************)
StepOrder == <<"render", "invoke", "parse", "validate", "return">>

FailingStep(exc) ==
    CASE exc.t = "KeyError" -> 1
      [] exc.t = "OpenAIError" -> 2
      [] exc.t = "JSONDecodeError" -> 3
      [] exc.t \in {"TypeError", "ValidationError"} -> 4
      [] OTHER -> 0

C9_StepsInOrder ==
    \A c \in Callers :
       LET f == call[c] IN
       /\ Len(f.steps) <= Len(StepOrder)
       /\ f.steps = SubSeq(StepOrder, 1, Len(f.steps))
       /\ f.invocations > 0 \/ Len(f.steps) >= 2 => IsBound(f.formatted_prompt)
       /\ IsBound(f.result) =>
             /\ f.steps = StepOrder
             /\ IsBound(f.response_json)
             /\ IsBound(f.validated_output)
             /\ f.exc = NoExc
       /\ f.exc.t # "none" => f.steps = SubSeq(StepOrder, 1, FailingStep(f.exc))

C9_Witness ==
    \E c \in Callers :
       /\ call[c].pc = "raised"
       /\ call[c].exc.t = "JSONDecodeError"
       /\ call[c].steps = <<"render", "invoke", "parse">>

(***************************************************************************)
(* C10: no step of any call changes the service (the endpoint handle and   *)
(* the three templates), and the outcome of a call is the one its own      *)
(* arguments and the reply to its own prompt determine.                    *)
(***************************************************************************)
OwnTemplate(f) ==
    CASE f.op = "get_vibe_report" -> VibeProfilerPrompt
      [] f.op = "clone_brand_voice" -> BrandVoiceClonerPrompt
      [] f.op = "get_smart_receipt_recommendations" -> SmartReceiptRecommenderPrompt
      [] OTHER -> f.prompt

OwnInputData(f) ==
    CASE f.op = "get_vibe_report" -> [k \in {"transaction_summary"} |-> f.args[1]]
      [] f.op = "clone_brand_voice" ->
           [k \in {"campaign_texts"} |-> Join(<<"\n">>, f.args[1])]
      [] f.op = "get_smart_receipt_recommendations" ->
           [k \in {"current_basket_items", "past_purchase_patterns"} |->
              IF k = "current_basket_items" THEN Join(<<",", " ">>, f.args[1])
              ELSE StrOfDict(f.args[2])]
      [] OTHER -> f.input_data

Outcome(pc, result, raised) == [pc |-> pc, result |-> result, raised |-> raised]

OwnOutcome(f) ==
    LET r == PromptFormat(OwnTemplate(f), OwnInputData(f)) IN
    IF ~r.ok THEN Outcome("raised", Unbound, Exc("KeyError", r.key))
    ELSE IF ~IsBound(f.response_content)
    THEN Outcome("raised", Unbound, Exc("OpenAIError", 0))
    ELSE LET j == JsonLoads(f.response_content.v) IN
         IF ~j.ok THEN Outcome("raised", Unbound, Exc("JSONDecodeError", 0))
         ELSE IF j.val.t # "dict" THEN Outcome("raised", Unbound, Exc("TypeError", 0))
         ELSE LET m == ModelInit(f.output_model, j.val.v) IN
              IF m.ok THEN Outcome("returned", m.obj, NoExc)
              ELSE Outcome("raised", Unbound, Exc("ValidationError", m.errs))

OutcomeIsOwn(f) ==
    /\ IsBound(f.formatted_prompt) =>
          f.formatted_prompt.v = PromptFormat(OwnTemplate(f), OwnInputData(f)).text
    /\ Ended(f) => Outcome(f.pc, f.result, f.raised) = OwnOutcome(f)

C10_ServiceUnchanged ==
    [][/\ svc' = svc
       /\ \A c \in Callers : OutcomeIsOwn(call'[c])]_vars

C10_Witness ==
    /\ llm_calls = 2
    /\ \E c \in Callers :
          /\ call[c].pc = "returned"
          /\ call[c].op = "get_vibe_report"
          /\ call[c].args = << <<"a", "b">> >>

(***************************************************************************)
(* C11: when calls of several callers interleave, every call still works   *)
(* on its own values: its prompt is the rendering of its own arguments,    *)
(* the value it validates is parsed from the reply its own invocation      *)
(* received, the record it returns is built from that value under its own  *)
(* output shape, and its outcome is the one these determine.               *)
(***************************************************************************)
C11_CallsIsolated ==
    \A c \in Callers :
       LET f == call[c] IN
       /\ OutcomeIsOwn(f)
       /\ IsBound(f.response_json) =>
             /\ IsBound(f.response_content)
             /\ JsonLoads(f.response_content.v) = [ok |-> TRUE, val |-> f.response_json]
       /\ IsBound(f.validated_output) =>
             /\ f.validated_output.t = f.output_model
             /\ f.validated_output = ModelInit(f.output_model, f.response_json.v).obj
             /\ f.result = f.validated_output

C11_Witness ==
    \E c, d \in Callers :
       /\ c # d
       /\ call[c].pc = "returned"
       /\ call[c].op = "clone_brand_voice"
       /\ call[d].pc = "validate"
       /\ call[d].op = "clone_brand_voice"
       /\ call[d].args # call[c].args
       /\ call[d].response_content # call[c].response_content

(***************************************************************************)
(* C15: a reply that is valid JSON and no object (an array, a string, a    *)
(* number, a boolean, null) makes the call fail with ValidationError, and  *)
(* no record is returned.                                                  *)
(***************************************************************************)
NonObjectJson(f) ==
    /\ IsBound(f.response_content)
    /\ JsonLoads(f.response_content.v).ok
    /\ JsonLoads(f.response_content.v).val.t # "dict"

C15_NonObjectIsValidationError ==
    \A c \in Callers :
       Ended(call[c]) /\ NonObjectJson(call[c]) =>
          /\ call[c].pc = "raised"
          /\ call[c].raised.t = "ValidationError"
          /\ ~IsBound(call[c].result)

(***************************************************************************)
(* C12: a call that fails at the validation step (its reply was parsed and *)
(* no record was built from it) reports the failure with the complete raw  *)
(* reply text and the violated fields: the error line of the log holds the *)
(* whole reply and the error raised, which names the fields.  The reply is *)
(* not handed back as a result.                                            *)
(***************************************************************************)
FailedValidation(f) ==
    /\ f.pc = "raised"
    /\ IsBound(f.response_json)
    /\ ~IsBound(f.validated_output)

C12_ValidationFailureCarriesReply ==
    \A c \in Callers :
       LET f == call[c] IN
       FailedValidation(f) =>
          /\ ~IsBound(f.result)
          /\ f.raised.t = "ValidationError"
          /\ f.raised.v # <<>>
          /\ \E i \in DOMAIN f.log :
                /\ f.log[i].level = "ERROR"
                /\ f.log[i].exc = f.raised
                /\ f.log[i].text = Text(f.response_content.v)

(***************************************************************************)
(* C13: a record the service returned is immutable: whatever the caller or *)
(* the service does later, the record a caller holds has the field values  *)
(* it was returned with, and a BrandVoiceOutput keeps its predicted_score  *)
(* within 0..100 for as long as it is held.                                *)
(***************************************************************************)
C13_RecordImmutable ==
    \A c \in Callers :
       IsBound(held[c].obj) =>
          /\ held[c].obj = held[c].returned
          /\ held[c].obj.t = "BrandVoiceOutput" =>
                /\ held[c].obj.v["predicted_score"].t = "int"
                /\ held[c].obj.v["predicted_score"].v >= ScoreMin
                /\ held[c].obj.v["predicted_score"].v <= ScoreMax

(***************************************************************************)
(* C14: with no API credential in the environment the service is           *)
(* constructed all the same (the start ends with a running service whose   *)
(* credential is empty and with no error), and every call of an operation  *)
(* on that service fails at the invocation of the model and returns no     *)
(* record.                                                                 *)
(***************************************************************************)
C14_EmptyCredentialConstructs ==
    /\ boot.phase # "start" /\ "OPENAI_API_KEY" \notin boot.env =>
          /\ boot.phase = "running"
          /\ boot.error = NoExc
          /\ svc = NewService("")
    /\ boot.phase = "running" /\ svc.llm.openai_api_key = "" =>
          \A c \in Callers :
             Ended(call[c]) /\ call[c].op \in PublicOps =>
                /\ call[c].pc = "raised"
                /\ call[c].steps = <<"render", "invoke">>
                /\ ~IsBound(call[c].result)

(***************************************************************************)
(* C16: the rendered prompt of an operation is the text of its template    *)
(* with every placeholder replaced by the caller's value: the fixed parts  *)
(* of the template stand in their order, no placeholder is left, the       *)
(* campaign texts stand between them in their order with one newline       *)
(* between neighbours, the basket items in their order with ", " between   *)
(* neighbours, the purchase patterns in the textual form Python gives a    *)
(* dict, and the transaction summary as it was passed.  The text is        *)
(* thereby determined by the arguments alone.                              *)
(***************************************************************************)
Placeholders ==
    {"transaction_summary", "campaign_texts", "current_basket_items",
     "past_purchase_patterns"}

\* the positions of the fixed parts of a template in a rendered text
FixedAt(text) == {i \in 1..Len(text) : text[i].n # 1}
Kth(positions, k) ==
    CHOOSE x \in positions : Cardinality({y \in positions : y < x}) = k - 1

\* the characters between the k-th and the next fixed part
ValueAt(text, k) ==
    LET from == Kth(FixedAt(text), k)
        to == Kth(FixedAt(text), k + 1)
    IN [i \in 1..(to - from - 1) |-> text[from + i].s]

\* the fixed parts of a template, in order
FixedParts(template) ==
    LET idx == {i \in 1..Len(template) : ~template[i].var} IN
    [k \in 1..Cardinality(idx) |->
       [s |-> template[Kth(idx, k)].s, n |-> template[Kth(idx, k)].n]]

RECURSIVE OffsetOf(_, _, _)
\* where the k-th item starts in a text of the items with seplen characters
\* between neighbours
OffsetOf(items, seplen, k) ==
    IF k = 1 THEN 0
    ELSE OffsetOf(items, seplen, k - 1) + Len(items[k - 1]) + seplen

\* text holds the items in their order, sep between neighbours, nothing else
IsJoined(text, sep, items) ==
    LET n == Len(items) IN
    /\ Len(text) = IF n = 0 THEN 0
                   ELSE OffsetOf(items, Len(sep), n) + Len(items[n])
    /\ \A k \in 1..n :
          /\ \A i \in 1..Len(items[k]) :
                text[OffsetOf(items, Len(sep), k) + i] = items[k][i]
          /\ k < n =>
                \A j \in 1..Len(sep) :
                   text[OffsetOf(items, Len(sep), k) + Len(items[k]) + j] = sep[j]

\* str(d) as Python prints the dicts used here
DefaultTextualForm(d) ==
    CASE d = <<>> -> <<"{", "}">>
      [] OTHER -> <<"{", "'", "favorite_brand", "'", ":", " ",
                    "'", "EcoBrew", "'", "}">>

C16_PromptRendersInputs ==
    \A c \in Callers :
       LET f == call[c] IN
       f.op \in PublicOps /\ IsBound(f.formatted_prompt) =>
          LET text == f.formatted_prompt.v IN
          /\ \A i \in 1..Len(text) : text[i].s \notin Placeholders
          /\ [k \in 1..Cardinality(FixedAt(text)) |-> text[Kth(FixedAt(text), k)]]
                = FixedParts(OwnTemplate(f))
          /\ text[1].n # 1 /\ text[Len(text)].n # 1
          /\ f.op = "get_vibe_report" => ValueAt(text, 1) = f.args[1]
          /\ f.op = "clone_brand_voice" =>
                IsJoined(ValueAt(text, 1), <<"\n">>, f.args[1])
          /\ f.op = "get_smart_receipt_recommendations" =>
                /\ IsJoined(ValueAt(text, 1), <<",", " ">>, f.args[1])
                /\ ValueAt(text, 2) = DefaultTextualForm(f.args[2])

C16_Witness ==
    \E c \in Callers :
       /\ call[c].op = "get_smart_receipt_recommendations"
       /\ call[c].args = << << <<"b">>, <<"a">> >>,
                            << <<<<"favorite_brand">>, <<"EcoBrew">>>> >> >>
       /\ IsBound(call[c].formatted_prompt)
       /\ call[c].pc = "returned"

(***************************************************************************)
(* C17: the log of a call.  The line with the preview of the prompt is     *)
(* written before the model is invoked, the line with the preview of the   *)
(* reply after the model has returned and before the reply is parsed.  As  *)
(* claimed, no line holds more than the first 200 characters of the prompt *)
(* or of the reply (C17_LogsOnlyPreviews).  As the code has it, this is so *)
(* for the two info lines, while the error line of a ValidationError holds *)
(* the whole raw reply, however long (C17_PreviewsAndErrorLine).           *)
(***************************************************************************)
RECURSIVE ChunksLen(_)
ChunksLen(chunks) ==
    IF chunks = <<>> THEN 0 ELSE Head(chunks).n + ChunksLen(Tail(chunks))

IsPromptLine(e) == e.level = "INFO" /\ e.msg = "Sending prompt to AI"
IsReplyLine(e) == e.level = "INFO" /\ e.msg = "Received raw AI response"
IsValidationLine(e) ==
    e.level = "ERROR" /\ e.msg = "Pydantic validation error for AI response"

\* how many characters of the prompt or of the reply a log line holds
LoggedLen(e) == IF IsPromptLine(e) THEN ChunksLen(e.text) ELSE Len(e.text)

\* the preview lines are where the claim puts them
LogOrder(f) ==
    /\ IsBound(f.formatted_prompt) =>
          /\ Len(f.log) >= 1 /\ IsPromptLine(f.log[1])
          /\ f.invocations = 0 => Len(f.log) = 1 \/ f.exc.t # "none"
    /\ f.invocations > 0 => IsBound(f.formatted_prompt)
    /\ IsBound(f.response_content) =>
          /\ Len(f.log) >= 2 /\ IsReplyLine(f.log[2])
    /\ f.pc = "parse" => Len(f.log) = 2
    /\ "parse" \in {f.steps[i] : i \in DOMAIN f.steps} => IsBound(f.response_content)
    /\ \A i \in DOMAIN f.log :
          /\ IsPromptLine(f.log[i]) => i = 1
          /\ IsReplyLine(f.log[i]) => i = 2 /\ IsBound(f.response_content)

\* a line holds the first characters of the text and no more than PreviewLen
IsPromptPreview(e, prompt) ==
    /\ ChunksLen(e.text) = Min(PreviewLen, ChunksLen(prompt))
    /\ Len(e.text) <= Len(prompt)
    /\ \A i \in DOMAIN e.text :
          /\ e.text[i].s = prompt[i].s
          /\ e.text[i].n <= prompt[i].n
          /\ i < Len(e.text) => e.text[i].n = prompt[i].n

IsReplyPreview(e, reply) ==
    /\ Len(e.text) = Min(PreviewLen, Len(reply))
    /\ \A i \in DOMAIN e.text : e.text[i] = reply[i]

C17_LogsOnlyPreviews ==
    \A c \in Callers :
       LET f == call[c] IN
       /\ LogOrder(f)
       /\ \A i \in DOMAIN f.log : LoggedLen(f.log[i]) <= PreviewLen

C17_PreviewsAndErrorLine ==
    \A c \in Callers :
       LET f == call[c] IN
       /\ LogOrder(f)
       /\ \A i \in DOMAIN f.log :
             LET e == f.log[i] IN
             /\ IsPromptLine(e) =>
                   /\ IsPromptPreview(e, f.formatted_prompt.v)
                   /\ ChunksLen(e.text) < ChunksLen(f.formatted_prompt.v)
             /\ IsReplyLine(e) => IsReplyPreview(e, Text(f.response_content.v))
             /\ IsValidationLine(e) =>
                   /\ i = Len(f.log)
                   /\ e.text = Text(f.response_content.v)
             /\ ~IsPromptLine(e) /\ ~IsReplyLine(e) /\ ~IsValidationLine(e) =>
                   e.text = <<>>
       /\ f.pc = "raised" /\ f.raised.t = "ValidationError" =>
             IsValidationLine(f.log[Len(f.log)])

C17_Witness ==
    \E c \in Callers :
       LET f == call[c] IN
       /\ f.pc = "raised"
       /\ f.raised.t = "ValidationError"
       /\ Len(Text(f.response_content.v)) > PreviewLen
       /\ Len(f.log[2].text) = PreviewLen
       /\ Len(f.log[Len(f.log)].text) > PreviewLen

(***************************************************************************)
(* C18: a DataEngine holds at most one connection: the connections the     *)
(* factory returned and the engine has not closed are none, or the one in  *)
(* _duckdb_con.  The factory is called by a fetch exactly when the engine  *)
(* holds none (the first fetch, or the first after close_connection or     *)
(* after a failed call of the factory); a fetch that finds a connection    *)
(* runs on it and leaves it in place.  After close_connection the engine   *)
(* holds none, and the connection it held is closed; with none held,       *)
(* close_connection calls nothing.  When the factory raises, the engine    *)
(* still holds none.                                                       *)
(***************************************************************************)
C18_SingleCachedConnection ==
    LET l == engine.last IN
    /\ Cardinality(engine.live) <= 1
    /\ engine.live = IF engine.duckdb_con = 0 THEN {} ELSE {engine.duckdb_con}
    /\ engine.live \subseteq engine.open
    /\ l.op \in FetchOps =>
          /\ l.factory # "not_called" <=> l.before = 0
          /\ l.before # 0 =>
                /\ l.used = l.before
                /\ engine.duckdb_con = l.before
                /\ engine.factory_calls = l.calls_before
          /\ l.before = 0 => engine.factory_calls = l.calls_before + 1
          /\ l.factory = "ok" => l.used # 0 /\ engine.duckdb_con = l.used
          /\ l.factory \in {"connect_fails", "setup_fails"} =>
                /\ engine.duckdb_con = 0
                /\ l.query = "not_run"
    /\ l.op = "close_connection" =>
          /\ engine.duckdb_con = 0
          /\ l.before \notin engine.open
          /\ l.factory = "not_called"
          /\ engine.factory_calls = l.calls_before

C18_Witness ==
    /\ engine.last.op \in FetchOps
    /\ engine.last.before = 0
    /\ engine.last.factory = "ok"
    /\ engine.factory_calls = 3
    /\ engine.made = 2
    /\ engine.duckdb_con = 2

(***************************************************************************)
(* C19: a press of a button sends at most one request, and only after the  *)
(* check of the form has passed: POST /vibe-report only with a non-empty   *)
(* customer id, POST /brand-voice only with a non-empty brand id and at    *)
(* least five campaign texts that are not blank, POST /smart-receipt only  *)
(* with a non-empty customer id and at least one basket item that is not   *)
(* blank.  When the check fails, nothing is sent and a warning is shown.   *)
(***************************************************************************)
\* how many lines of the text hold something else than blanks
NonBlankCount(raw) ==
    LET Ink(i) == raw[i] \notin Whitespace \cup {"\n"}
        SameLine(j, i) == \A k \in j..(i - 1) : raw[k] # "\n"
    IN Cardinality({i \in DOMAIN raw :
                      /\ Ink(i)
                      /\ \A j \in 1..(i - 1) : SameLine(j, i) => ~Ink(j)})

CheckPasses(button) ==
    CASE button = "vibe" -> ui.id # <<>>
      [] button = "brand" ->
           ui.id # <<>> /\ NonBlankCount(ui.text) >= MinCampaignTexts
      [] button = "receipt" -> ui.id # <<>> /\ NonBlankCount(ui.text) >= 1
      [] OTHER -> FALSE

PathOf(button) ==
    CASE button = "vibe" -> "/vibe-report"
      [] button = "brand" -> "/brand-voice"
      [] button = "receipt" -> "/smart-receipt"
      [] OTHER -> ""

C19_RequestOnlyAfterCheck ==
    LET l == ui.last IN
    /\ Len(l.posted) <= 1
    /\ \A i \in DOMAIN l.posted :
          LET r == l.posted[i] IN
          /\ CheckPasses(l.button)
          /\ r.method = "POST"
          /\ r.path = PathOf(l.button)
          /\ r.id = ui.id
          /\ l.button # "vibe" => Len(r.items) = NonBlankCount(ui.text)
          /\ \A k \in DOMAIN r.items : r.items[k] # <<>> /\ ~IsBlank(r.items[k])
    /\ l.button # "" /\ ~CheckPasses(l.button) =>
          /\ l.posted = <<>>
          /\ \E k \in DOMAIN l.shown : l.shown[k] = "warning"
    /\ l.button = "" => l.posted = <<>>

C19_Witness ==
    /\ ui.last.button = "brand"
    /\ NonBlankCount(ui.text) = MinCampaignTexts
    /\ Len(SplitLines(ui.text, <<>>)) > MinCampaignTexts
    /\ Len(ui.last.posted) = 1
    /\ ui.last.posted[1].path = "/brand-voice"

====
